---- MODULE Spec2Model ----
(***************************************************************************)
(* Noesis: the Note/Link Store (src/api/main.py over src/api/models.py and *)
(* src/api/schemas.py) and the Graph Materializer (src/api/main.py strict  *)
(* mode, src/api/graph.py permissive mode).                                *)
(*                                                                         *)
(* A request handler is a process.  Every database statement a handler     *)
(* runs before its commit is one step (the queries that load rows into the *)
(* session), the commit is another; between the two steps of one request   *)
(* the steps of other requests may run (SpecConc), or may not (Spec: the   *)
(* handlers are "async def" without an await, so one worker process runs   *)
(* each of them to its end before the next one starts).                    *)
(*                                                                         *)
(* Text is a sequence of characters, so that str.strip() is computed.      *)
(***************************************************************************)
EXTENDS Integers, Sequences, FiniteSets, TLC

VARIABLES
    notes,      \* table notes: id -> row, DOMAIN notes = the ids stored
    versions,   \* table note_versions, a sequence of rows in insertion order
    links,      \* table links, a sequence of rows in insertion order
    nextNote,   \* how many note ids uuid4 has handed out
    nextVersion,\* how many version ids uuid4 has handed out
    nextLink,   \* how many link ids uuid4 has handed out
    now,        \* the clock (func.now(), datetime.utcnow())
    pc,         \* pc[p]: where request handler p stands
    req,        \* req[p]: the request p is running or has last run
    res,        \* res[p]: HTTP status of the last response of p (0: none yet)
    hist,       \* history: hist[id].returned: create_note has returned note id;
                \* hist[id].prior: the content the table held for id right
                \* before each successful update_note commit, in order;
                \* hist[id].sets: the content each of them left the note
                \* with in its session (the one provided, else the one loaded);
                \* hist[id].created: the content create_note stored;
                \* hist[id].updated: how many update_note calls on id
                \* were answered with success
    nreq,       \* history: how many requests have been received
    g_in,       \* stateless graph request: the parsed JSON body
    g_out       \* stateless graph request: what the handler produced

storeVars == <<notes, versions, links, nextNote, nextVersion, nextLink, now,
               pc, req, res, hist, nreq>>
graphVars == <<g_in, g_out>>
vars == <<notes, versions, links, nextNote, nextVersion, nextLink, now,
          pc, req, res, hist, nreq, g_in, g_out>>

----------------------------------------------------------------------------
(* Bounds of the model *)

MaxNotes == 2
MaxVersions == 4
MaxLinks == 2
NumProcs == 2
MaxRequests == 5

Procs == 1..NumProcs

----------------------------------------------------------------------------
(* Program constants *)

HTTP_200_OK == 200
HTTP_201_CREATED == 201
HTTP_400_BAD_REQUEST == 400
HTTP_404_NOT_FOUND == 404
HTTP_422_UNPROCESSABLE == 422
HTTP_500_INTERNAL_SERVER_ERROR == 500
TitleMinLength == 1
TitleMaxLength == 200
ReasonMinLength == 1
DefaultLimit == 100

NoteType == {"idea", "question", "definition"}
Domain == {"physics", "security", "philosophy", "personal", "other"}
RelationType == {"supports", "contradicts", "extends", "references"}

\* A column that holds NULL (ids are 1, 2, ...; clock readings are 1, 2, ...).
NULL == 0

\* Optional[...] = None of a request field.
NoneText == <<"None">>
NoneEnum == "None"

----------------------------------------------------------------------------
(* Text *)

IsSpace(c) == c \in {" ", "\t", "\n"}

RECURSIVE LStrip(_)
LStrip(s) ==
    IF s = <<>> THEN <<>>
    ELSE IF IsSpace(Head(s)) THEN LStrip(Tail(s)) ELSE s

RECURSIVE RStrip(_)
RStrip(s) ==
    IF s = <<>> THEN <<>>
    ELSE IF IsSpace(s[Len(s)]) THEN RStrip(SubSeq(s, 1, Len(s) - 1)) ELSE s

\* Strip leaving its argument as it is.
StripNot(s) == s

\* str.strip()
Strip(s) == RStrip(LStrip(s))

----------------------------------------------------------------------------
(* The error taxonomy of a response, decided by its HTTP status *)

Kind(status) ==
    CASE status \in {HTTP_200_OK, HTTP_201_CREATED} -> "Success"
      [] status \in {HTTP_400_BAD_REQUEST, HTTP_422_UNPROCESSABLE} -> "ValidationError"
      [] status = HTTP_404_NOT_FOUND -> "NotFound"
      [] status = 409 -> "ConflictError"
      [] status = HTTP_500_INTERNAL_SERVER_ERROR -> "InternalError"
      [] OTHER -> "None"

----------------------------------------------------------------------------
(* Inputs of the requests *)

\* The field sets of update_note requests: (title, content, note_type, domain)
UpdateInputs ==
    { <<NoneText, NoneText, NoneEnum, NoneEnum>>,
      <<NoneText, <<"a">>, NoneEnum, NoneEnum>>,
      <<NoneText, <<"b", " ">>, NoneEnum, NoneEnum>>,
      <<<<" ">>, NoneText, NoneEnum, NoneEnum>>,
      <<<<>>, NoneText, NoneEnum, NoneEnum>>,
      <<<<"u">>, <<"b">>, "question", "physics">> }

\* The request bodies the callers send when requests run one at a time.
Inputs ==
    [titles |-> { <<>>, <<"t">> },
     contents |-> { <<" ", "a">> },
     note_types |-> { "idea" },
     domains |-> { "physics", "other" },
     updates |-> UpdateInputs,
     reasons |-> { NoneText, <<>>, <<" ">>, <<"r", " ">> },
     relations |-> { "references" }]

\* The request bodies the callers send when requests interleave: the valid
\* ones (a request refused at validation touches no row).
ConcInputs ==
    [titles |-> { <<"t">> },
     contents |-> { <<" ", "a">> },
     note_types |-> { "idea" },
     domains |-> { "other" },
     updates |-> { <<NoneText, <<"a">>, NoneEnum, NoneEnum>>,
                   <<NoneText, <<"b", " ">>, NoneEnum, NoneEnum>> },
     reasons |-> { <<"r", " ">> },
     relations |-> { "references" }]

\* The request bodies that build the Stores whose graph is read: notes of
\* two domains, links, and updates that move a note to another domain.
GraphInputs ==
    [titles |-> { <<"t">> },
     contents |-> { <<"a">> },
     note_types |-> { "idea" },
     domains |-> { "physics", "other" },
     updates |-> { <<NoneText, NoneText, NoneEnum, "other">> },
     reasons |-> { <<"r">> },
     relations |-> { "references" }]

NoteIdInputs == 1..MaxNotes
LinkIdInputs == 1..MaxLinks

----------------------------------------------------------------------------
(* Tables *)

EmptyTable == [i \in {} |-> NULL]

Ids == DOMAIN notes

\* The table with row r stored under key k (INSERT, or UPDATE of the row).
Put(table, k, r) == [i \in DOMAIN table \cup {k} |-> IF i = k THEN r ELSE table[i]]

\* The table without the row of key k (DELETE).
Remove(table, k) == [i \in DOMAIN table \ {k} |-> table[i]]

Range(s) == { s[i] : i \in DOMAIN s }

\* query(NoteVersion).filter(NoteVersion.note_id == id), in table order
VersionsOf(id) == SelectSeq(versions, LAMBDA v : v.note_id = id)

\* The clock: every commit that stamps a row reads it later than every
\* earlier one (successive commits get distinct timestamps).
ClockNext == { now + 1 }

----------------------------------------------------------------------------
(* State after construction: empty tables, no request running *)

IdleReq == [op |-> "none"]

StoreInit ==
    /\ notes = EmptyTable
    /\ versions = <<>>
    /\ links = <<>>
    /\ nextNote = 0
    /\ nextVersion = 0
    /\ nextLink = 0
    /\ now = 1
    /\ pc = [p \in Procs |-> "idle"]
    /\ req = [p \in Procs |-> IdleReq]
    /\ res = [p \in Procs |-> 0]
    /\ hist = EmptyTable
    /\ nreq = 0

----------------------------------------------------------------------------
(* What a handler leaves behind when it answers *)

\* The response of p is sent: its status is kept, the handler is idle again,
\* and of the request only its log line stays (operation, key arguments).
Respond(p, status, log) ==
    /\ res' = [res EXCEPT ![p] = status]
    /\ pc' = [pc EXCEPT ![p] = "idle"]
    /\ req' = [req EXCEPT ![p] = log]

\* The handler of p goes on to its next database statement.
Goto(p, label, r) ==
    /\ pc' = [pc EXCEPT ![p] = label]
    /\ req' = [req EXCEPT ![p] = r]
    /\ res' = [res EXCEPT ![p] = 0]

\* Handler p receives a request (the step is counted).
Receive(p) ==
    /\ pc[p] = "idle"
    /\ nreq < MaxRequests
    /\ nreq' = nreq + 1
    /\ UNCHANGED graphVars

\* Handler p goes on from `label`.
Continue(p, label) ==
    /\ pc[p] = label
    /\ UNCHANGED <<nreq, g_in, g_out>>

StoreUnchanged ==
    UNCHANGED <<notes, versions, links, nextNote, nextVersion, nextLink, now, hist>>

----------------------------------------------------------------------------
(* POST /api/notes *)

InitialCreation == <<"Initial creation">>

NoteCreateValid(title) ==
    /\ Len(title) >= TitleMinLength
    /\ Len(title) <= TitleMaxLength

\* response_model=NoteResponse: the answer is validated against NoteBase, so
\* a stored note whose title fails the constraints cannot be returned.
NoteResponseValid(note) == NoteCreateValid(note.title)

\* The status of a handler that returns the stored note: `ok`, or 500 when
\* the validation of the response fails.
Returning(note, ok) ==
    IF NoteResponseValid(note) THEN ok ELSE HTTP_500_INTERNAL_SERVER_ERROR

CreateNoteLog(r) == [op |-> "create_note", id |-> r.id, title |-> r.title]

\* The NoteVersion row create_note adds after its first commit.
InitialVersionRow(note_id, t) ==
    [id |-> nextVersion + 1, note_id |-> note_id, old_content |-> <<>>,
     change_reason |-> InitialCreation, changed_at |-> t]

\* First transaction of create_note: the Note row.
CreateNote(p, in) ==
    /\ Receive(p)
    /\ nextNote < MaxNotes
    /\ nextVersion < MaxVersions
    /\ \E title \in in.titles, content \in in.contents,
          note_type \in in.note_types, domain \in in.domains :
        LET r == [op |-> "create_note", id |-> NULL, title |-> title]
        IN  IF ~NoteCreateValid(title)
            THEN /\ Respond(p, HTTP_422_UNPROCESSABLE, CreateNoteLog(r))
                 /\ StoreUnchanged
            ELSE \/ \E t \in ClockNext :
                       LET id == nextNote + 1
                       IN  /\ notes' = Put(notes, id,
                                  [title |-> Strip(title), content |-> Strip(content),
                                   note_type |-> note_type, domain |-> domain,
                                   created_at |-> t, updated_at |-> NULL])
                           /\ hist' = Put(hist, id, [returned |-> FALSE, prior |-> <<>>,
                                                      created |-> Strip(content),
                                                      sets |-> <<>>, updated |-> 0])
                           /\ nextNote' = id
                           /\ now' = t
                           /\ Goto(p, "cn_version", [r EXCEPT !.id = id])
                           /\ UNCHANGED <<versions, links, nextVersion, nextLink>>
                 \/ /\ Respond(p, HTTP_500_INTERNAL_SERVER_ERROR, CreateNoteLog(r))
                    /\ StoreUnchanged

\* Second transaction of create_note: the initial NoteVersion row.
CreateNoteVersion(p) ==
    /\ Continue(p, "cn_version")
    /\ \/ \E t \in ClockNext :
            /\ versions' = Append(versions, InitialVersionRow(req[p].id, t))
            /\ hist' = IF req[p].id \in DOMAIN hist
                       THEN [hist EXCEPT ![req[p].id].returned =
                                 NoteResponseValid(notes[req[p].id])]
                       ELSE hist
            /\ nextVersion' = nextVersion + 1
            /\ now' = t
            /\ Respond(p, IF req[p].id \in Ids
                          THEN Returning(notes[req[p].id], HTTP_201_CREATED)
                          ELSE HTTP_201_CREATED,
                       CreateNoteLog(req[p]))
            /\ UNCHANGED <<notes, links, nextNote, nextLink>>
       \/ /\ Respond(p, HTTP_500_INTERNAL_SERVER_ERROR, CreateNoteLog(req[p]))
          /\ StoreUnchanged

----------------------------------------------------------------------------
(* PUT /api/notes/{note_id} *)

\* NoteUpdate, validated before the handler runs.
NoteUpdateValid(title, change_reason) ==
    /\ change_reason # NoneText
    /\ Len(change_reason) >= ReasonMinLength
    /\ title # NoneText =>
          /\ Len(title) >= TitleMinLength
          /\ Len(title) <= TitleMaxLength

UpdateNoteLog(r) ==
    [op |-> "update_note", id |-> r.id, change_reason |-> r.change_reason]

\* The handler up to the try block: the note is loaded into the session.
UpdateNote(p, in) ==
    /\ Receive(p)
    /\ nextVersion < MaxVersions
    /\ StoreUnchanged
    /\ \E id \in NoteIdInputs, fields \in in.updates,
          change_reason \in in.reasons :
        LET title == fields[1]
            content == fields[2]
            note_type == fields[3]
            domain == fields[4]
            r == [op |-> "update_note", id |-> id, title |-> title,
                  content |-> content, note_type |-> note_type,
                  domain |-> domain, change_reason |-> change_reason]
        IN  IF ~NoteUpdateValid(title, change_reason)
            THEN Respond(p, HTTP_422_UNPROCESSABLE, UpdateNoteLog(r))
            ELSE IF id \notin Ids
            THEN Respond(p, HTTP_404_NOT_FOUND, UpdateNoteLog(r))
            ELSE IF Strip(change_reason) = <<>>
            THEN Respond(p, HTTP_400_BAD_REQUEST, UpdateNoteLog(r))
            ELSE Goto(p, "un_commit",
                      [op |-> "update_note", id |-> id, title |-> title,
                       content |-> content, note_type |-> note_type,
                       domain |-> domain, change_reason |-> change_reason,
                       note |-> notes[id]])

\* Assigned writing the value of the request also when none is provided.
AssignedAlways(new, none, loaded, current) == new

\* An attribute assignment on the loaded row: the flush writes the column
\* when the request provides the field and the value differs from the one
\* loaded; otherwise the column keeps what the table holds.
Assigned(new, none, loaded, current) ==
    IF new # none /\ new # loaded THEN new ELSE current

\* The row of the note after the flush of update_note at clock reading t.
UpdatedRow(r, current, t) ==
    [title |-> Assigned(IF r.title = NoneText THEN NoneText ELSE Strip(r.title),
                        NoneText, r.note.title, current.title),
     content |-> Assigned(IF r.content = NoneText THEN NoneText ELSE Strip(r.content),
                          NoneText, r.note.content, current.content),
     note_type |-> Assigned(r.note_type, NoneEnum, r.note.note_type, current.note_type),
     domain |-> Assigned(r.domain, NoneEnum, r.note.domain, current.domain),
     created_at |-> current.created_at,
     updated_at |-> t]

\* UpdateVersionRow taking the content after the assignments, not before.
UpdateVersionRowAfter(r, t) ==
    [id |-> nextVersion + 1, note_id |-> r.id,
     old_content |-> IF r.content = NoneText THEN r.note.content ELSE Strip(r.content),
     change_reason |-> Strip(r.change_reason), changed_at |-> t]

\* The NoteVersion row update_note adds to the session.
UpdateVersionRow(r, t) ==
    [id |-> nextVersion + 1, note_id |-> r.id, old_content |-> r.note.content,
     change_reason |-> Strip(r.change_reason), changed_at |-> t]

\* UpdateNoteWrites persisting the version row without the row of the note.
UpdateNoteVersionOnly(r, t) ==
    /\ versions' = Append(versions, UpdateVersionRow(r, t))
    /\ notes' = notes

\* What the single commit of update_note writes: the version row and the
\* row of the note, in one transaction.
UpdateNoteWrites(r, t) ==
    /\ versions' = Append(versions, UpdateVersionRow(r, t))
    /\ notes' = Put(notes, r.id, UpdatedRow(r, notes[r.id], t))

\* The try block of update_note: one commit, or the rollback.
UpdateNoteCommit(p) ==
    /\ Continue(p, "un_commit")
    /\ \/ /\ req[p].id \in Ids
          /\ \E t \in ClockNext :
                /\ UpdateNoteWrites(req[p], t)
                /\ now' = t
          /\ nextVersion' = nextVersion + 1
          /\ hist' = [hist EXCEPT ![req[p].id].prior = Append(@, notes[req[p].id].content),
                                   ![req[p].id].sets =
                                       Append(@, IF req[p].content = NoneText
                                                 THEN req[p].note.content
                                                 ELSE Strip(req[p].content)),
                                   ![req[p].id].updated =
                                       IF NoteResponseValid(notes'[req[p].id])
                                       THEN @ + 1 ELSE @]
          /\ Respond(p, Returning(notes'[req[p].id], HTTP_200_OK),
                     UpdateNoteLog(req[p]))
          /\ UNCHANGED <<links, nextNote, nextLink>>
       \/ /\ Respond(p, HTTP_500_INTERNAL_SERVER_ERROR, UpdateNoteLog(req[p]))
          /\ StoreUnchanged

----------------------------------------------------------------------------
(* DELETE /api/notes/{note_id} *)

DeleteNoteLog(r) == [op |-> "delete_note", id |-> r.id]

DeleteNote(p) ==
    /\ Receive(p)
    /\ StoreUnchanged
    /\ \E id \in NoteIdInputs :
        LET r == [op |-> "delete_note", id |-> id]
        IN  IF id \notin Ids
            THEN Respond(p, HTTP_404_NOT_FOUND, DeleteNoteLog(r))
            ELSE Goto(p, "dn_commit", r)

\* CascadeVersions deleting the version rows of every note.
CascadeAll(id) == <<>>

\* Note.versions has cascade "all, delete-orphan": the flush deletes the
\* version rows of the note.
CascadeVersions(id) == SelectSeq(versions, LAMBDA v : v.note_id # id)

\* DetachLinks with the links of the note left as they are.
DetachLinksNot(id) == links

\* Note.outgoing_links and Note.incoming_links have no delete cascade: the
\* flush sets the foreign key of each such link to NULL before it deletes
\* the note (from_id and to_id are nullable), so no row is left for the
\* ON DELETE CASCADE of the table to remove.
DetachLinks(id) ==
    [i \in DOMAIN links |->
        [links[i] EXCEPT !.from_id = IF @ = id THEN NULL ELSE @,
                         !.to_id = IF @ = id THEN NULL ELSE @]]

\* db.delete(note); db.commit()
DeleteNoteWrites(id) ==
    /\ notes' = Remove(notes, id)
    /\ versions' = CascadeVersions(id)
    /\ links' = DetachLinks(id)

DeleteNoteCommit(p) ==
    /\ Continue(p, "dn_commit")
    /\ \/ /\ DeleteNoteWrites(req[p].id)
          /\ hist' = Remove(hist, req[p].id)
          /\ Respond(p, HTTP_200_OK, DeleteNoteLog(req[p]))
          /\ UNCHANGED <<nextNote, nextVersion, nextLink, now>>
       \/ /\ Respond(p, HTTP_500_INTERNAL_SERVER_ERROR, DeleteNoteLog(req[p]))
          /\ StoreUnchanged

----------------------------------------------------------------------------
(* POST /api/links *)

\* query(Link).filter(Link.from_id == from_id, Link.to_id == to_id).first()
LinkExists(from_id, to_id) ==
    \E i \in DOMAIN links : links[i].from_id = from_id /\ links[i].to_id = to_id

\* The status create_link raises before its try block (0: none).
CreateLinkCheck(from_id, to_id) ==
    IF from_id \notin Ids THEN HTTP_404_NOT_FOUND
    ELSE IF to_id \notin Ids THEN HTTP_404_NOT_FOUND
    ELSE IF from_id = to_id THEN HTTP_400_BAD_REQUEST
    ELSE IF LinkExists(from_id, to_id) THEN HTTP_400_BAD_REQUEST
    ELSE 0

CreateLink(p, in) ==
    /\ Receive(p)
    /\ nextLink < MaxLinks
    /\ StoreUnchanged
    /\ \E from_id \in NoteIdInputs, to_id \in NoteIdInputs,
          relation \in in.relations :
        LET r == [op |-> "create_link", from_id |-> from_id, to_id |-> to_id,
                  relation |-> relation]
        IN  IF CreateLinkCheck(from_id, to_id) # 0
            THEN Respond(p, CreateLinkCheck(from_id, to_id), r)
            ELSE Goto(p, "cl_commit", r)

\* The Link table has no uniqueness constraint on (from_id, to_id); whether
\* the database checks the foreign keys on insert depends on the engine, so
\* the insert of a link to a note deleted meanwhile may succeed or fail.
CreateLinkCommit(p) ==
    /\ Continue(p, "cl_commit")
    /\ \/ /\ links' = Append(links,
                 [id |-> nextLink + 1, from_id |-> req[p].from_id,
                  to_id |-> req[p].to_id, relation |-> req[p].relation])
          /\ nextLink' = nextLink + 1
          /\ Respond(p, HTTP_201_CREATED, req[p])
          /\ UNCHANGED <<notes, versions, nextNote, nextVersion, now, hist>>
       \/ /\ Respond(p, HTTP_500_INTERNAL_SERVER_ERROR, req[p])
          /\ StoreUnchanged

----------------------------------------------------------------------------
(* DELETE /api/links/{link_id} *)

DeleteLink(p) ==
    /\ Receive(p)
    /\ StoreUnchanged
    /\ \E link_id \in LinkIdInputs :
        LET r == [op |-> "delete_link", id |-> link_id]
        IN  IF \A i \in DOMAIN links : links[i].id # link_id
            THEN Respond(p, HTTP_404_NOT_FOUND, r)
            ELSE Goto(p, "dl_commit", r)

\* db.delete(link) taking every row of the table with it.
DeleteLinkAll(link_id) == <<>>

\* db.delete(link); db.commit(): the links table without the row
DeleteLinkWrites(link_id) == SelectSeq(links, LAMBDA l : l.id # link_id)

DeleteLinkCommit(p) ==
    /\ Continue(p, "dl_commit")
    /\ \/ /\ links' = DeleteLinkWrites(req[p].id)
          /\ Respond(p, HTTP_200_OK, req[p])
          /\ UNCHANGED <<notes, versions, nextNote, nextVersion, nextLink, now, hist>>
       \/ /\ Respond(p, HTTP_500_INTERNAL_SERVER_ERROR, req[p])
          /\ StoreUnchanged

----------------------------------------------------------------------------
(* The reads of the Store: what a GET answers in the current state *)

\* order_by(key.desc()) over the rows `todo` of a table: the indices, the
\* greatest key first (equal keys in table order).
RECURSIVE OrderByDesc(_, _)
OrderByDesc(key, todo) ==
    IF todo = {} THEN <<>>
    ELSE LET i == CHOOSE i \in todo :
                    \A j \in todo : key[j] < key[i] \/ (key[j] = key[i] /\ i <= j)
         IN  <<i>> \o OrderByDesc(key, todo \ {i})

\* The ids of a set of notes in table order (query.all() without order_by).
RECURSIVE TableOrder(_)
TableOrder(ids) ==
    IF ids = {} THEN <<>>
    ELSE LET i == CHOOSE i \in ids : \A j \in ids : i <= j
         IN  <<i>> \o TableOrder(ids \ {i})

\* query(NoteVersion).filter(note_id == id).order_by(changed_at.desc()).all()
VersionsNewestFirst(id) ==
    LET rows == VersionsOf(id)
        order == OrderByDesc([i \in DOMAIN rows |-> rows[i].changed_at], DOMAIN rows)
    IN  [k \in DOMAIN order |-> rows[order[k]]]

\* GET /api/notes/{note_id}/versions.  The 404 branch names
\* status.HTP_404_NOT_FOUND, which does not exist: the AttributeError is
\* answered by the general exception handler.
get_note_versions(note_id) ==
    IF note_id \notin Ids
    THEN [status |-> HTTP_500_INTERNAL_SERVER_ERROR, body |-> <<>>]
    ELSE [status |-> HTTP_200_OK, body |-> VersionsNewestFirst(note_id)]

\* GET /api/notes/{note_id}
get_note(note_id) ==
    IF note_id \notin Ids
    THEN [status |-> HTTP_404_NOT_FOUND, note |-> NULL, versions |-> <<>>,
          outgoing_links |-> <<>>, incoming_links |-> <<>>]
    ELSE [status |-> Returning(notes[note_id], HTTP_200_OK), note |-> notes[note_id],
          versions |-> VersionsNewestFirst(note_id),
          outgoing_links |-> SelectSeq(links, LAMBDA l : l.from_id = note_id),
          incoming_links |-> SelectSeq(links, LAMBDA l : l.to_id = note_id)]

\* GET /api/notes: the ids of the notes returned, in order.
get_all_notes(skip, limit, domain, note_type) ==
    LET match == { i \in Ids :
                      /\ domain # NoneEnum => notes[i].domain = domain
                      /\ note_type # NoneEnum => notes[i].note_type = note_type }
        order == OrderByDesc([i \in match |-> notes[i].created_at], match)
        page == SubSeq(order, skip + 1,
                       IF skip + limit < Len(order) THEN skip + limit ELSE Len(order))
    IN  [status |-> IF \A k \in DOMAIN page : NoteResponseValid(notes[page[k]])
                    THEN HTTP_200_OK ELSE HTTP_500_INTERNAL_SERVER_ERROR,
         body |-> page]

\* GET /api/notes for any integers skip and limit.  The handler passes
\* them to offset() and limit() unchecked; what a negative one does is up
\* to the database engine: it is read as no offset and no limit, or the
\* query is refused and the request is answered 500.
get_all_notes_answers(skip, limit, domain, note_type) ==
    IF skip >= 0 /\ limit >= 0
    THEN { get_all_notes(skip, limit, domain, note_type) }
    ELSE { get_all_notes(IF skip < 0 THEN 0 ELSE skip,
                         IF limit < 0 THEN Cardinality(Ids) ELSE limit,
                         domain, note_type),
           [status |-> HTTP_500_INTERNAL_SERVER_ERROR, body |-> <<>>] }

\* LinkBetween looking at the source of the link only.
LinkFrom(l, note_ids) == l.from_id \in note_ids

\* filter(Link.from_id.in_(note_ids), Link.to_id.in_(note_ids))
LinkBetween(l, note_ids) == l.from_id \in note_ids /\ l.to_id \in note_ids

\* GET /api/graph not applying its domain filter.
get_graph_data_unfiltered(domain) ==
    LET order == TableOrder(Ids)
    IN  [nodes |-> [k \in DOMAIN order |->
                       [id |-> order[k], title |-> notes[order[k]].title,
                        note_type |-> notes[order[k]].note_type,
                        domain |-> notes[order[k]].domain]],
         edges |-> [k \in DOMAIN links |->
                       [id |-> links[k].id, source |-> links[k].from_id,
                        target |-> links[k].to_id, relation |-> links[k].relation]]]

\* GET /api/graph (strict mode)
get_graph_data(domain) ==
    LET note_ids == { i \in Ids : domain # NoneEnum => notes[i].domain = domain }
        order == TableOrder(note_ids)
        found == SelectSeq(links, LAMBDA l : LinkBetween(l, note_ids))
    IN  [nodes |-> [k \in DOMAIN order |->
                       [id |-> order[k], title |-> notes[order[k]].title,
                        note_type |-> notes[order[k]].note_type,
                        domain |-> notes[order[k]].domain]],
         edges |-> [k \in DOMAIN found |->
                       [id |-> found[k].id, source |-> found[k].from_id,
                        target |-> found[k].to_id, relation |-> found[k].relation]]]

\* The domain filters of GET /api/graph.
GraphFilters == {NoneEnum, "physics", "other"}

\* GET /api/graph handled by p: the graph of the current state is returned
\* (kept with the log of the request).
GetGraph(p) ==
    /\ Receive(p)
    /\ StoreUnchanged
    /\ \E domain \in GraphFilters :
          Respond(p, HTTP_200_OK,
                  [op |-> "get_graph_data", domain |-> domain,
                   nodes |-> get_graph_data(domain).nodes,
                   edges |-> get_graph_data(domain).edges])

----------------------------------------------------------------------------
(* The stateless Graph Materializer: JSON values *)

\* A JSON value: its type k, its text s (of a string or a number), its
\* items (of a list).  Absent is the value of a key the object lacks.
Str(s) == [k |-> "str", s |-> s, items |-> <<>>]
Num(s) == [k |-> "num", s |-> s, items |-> <<>>]
List(items) == [k |-> "list", s |-> "", items |-> items]
Absent == [k |-> "absent", s |-> "", items |-> <<>>]

\* An element of the notes list: a JSON object with its keys id, title,
\* domain and links, or a value that is no object.
Obj(id, title, domain, targets) ==
    [obj |-> TRUE, id |-> id, title |-> title, domain |-> domain, links |-> targets]
NonObj == [obj |-> FALSE, id |-> Absent, title |-> Absent, domain |-> Absent,
           links |-> Absent]

\* isinstance(v, str)
IsStr(v) == v.k = "str"

\* "not node_id or not isinstance(node_id, str)" is false
IsNodeId(v) == IsStr(v) /\ v.s # ""

\* note.get(key), without the default
GetNoDefault(v, default) == v

\* note.get(key, default)
Get(v, default) == IF v.k = "absent" THEN default ELSE v

DefaultDomain == Str("default")

\* The first loop of _build_graph_from_notes over notes[from..]: the nodes,
\* seen_ids being the ids met so far.
RECURSIVE NodePass(_, _)
NodePass(entries, seen_ids) ==
    IF entries = <<>> THEN <<>>
    ELSE LET note == Head(entries)
             node_id == note.id
         IN  IF ~IsNodeId(node_id) THEN NodePass(Tail(entries), seen_ids)
             ELSE IF node_id.s \in seen_ids THEN NodePass(Tail(entries), seen_ids)
             ELSE <<[id |-> node_id.s, title |-> Get(note.title, node_id),
                     domain |-> Get(note.domain, DefaultDomain)]>>
                  \o NodePass(Tail(entries), seen_ids \cup {node_id.s})

\* The inner loop over links: an edge for every target that is a string.
RECURSIVE EdgesOf(_, _)
EdgesOf(source_id, targets) ==
    IF targets = <<>> THEN <<>>
    ELSE IF ~IsStr(Head(targets)) THEN EdgesOf(source_id, Tail(targets))
    ELSE <<[source |-> source_id, target |-> Head(targets).s]>>
         \o EdgesOf(source_id, Tail(targets))

\* The edge loop taking every string id, the empty one included, as source.
RECURSIVE EdgePassEmptyId(_)
EdgePassEmptyId(entries) ==
    IF entries = <<>> THEN <<>>
    ELSE LET note == Head(entries)
             source_id == note.id
             targets == Get(note.links, List(<<>>))
         IN  IF ~IsStr(source_id) THEN EdgePassEmptyId(Tail(entries))
             ELSE IF targets.k # "list" THEN EdgePassEmptyId(Tail(entries))
             ELSE EdgesOf(source_id.s, targets.items) \o EdgePassEmptyId(Tail(entries))

\* The second loop of _build_graph_from_notes: the edges.
RECURSIVE EdgePass(_)
EdgePass(entries) ==
    IF entries = <<>> THEN <<>>
    ELSE LET note == Head(entries)
             source_id == note.id
             targets == Get(note.links, List(<<>>))
         IN  IF ~IsNodeId(source_id) THEN EdgePass(Tail(entries))
             ELSE IF targets.k # "list" THEN EdgePass(Tail(entries))
             ELSE EdgesOf(source_id.s, targets.items) \o EdgePass(Tail(entries))

\* note.get on an element that is no object raises AttributeError.
Raises(entries) == \E i \in DOMAIN entries : ~entries[i].obj

\* _build_graph_from_notes with seen_ids kept from the run before.
build_graph_seen_kept(entries) ==
    IF Raises(entries)
    THEN [raised |-> TRUE, nodes |-> <<>>, edges |-> <<>>]
    ELSE [raised |-> FALSE,
          nodes |-> NodePass(entries, { g_out.nodes[k].id : k \in DOMAIN g_out.nodes }),
          edges |-> EdgePass(entries)]

\* _build_graph_from_notes(notes)
build_graph_from_notes(entries) ==
    IF Raises(entries)
    THEN [raised |-> TRUE, nodes |-> <<>>, edges |-> <<>>]
    ELSE [raised |-> FALSE, nodes |-> NodePass(entries, {}),
          edges |-> EdgePass(entries)]

MaxEntries == 3

\* The elements the callers put into a notes list.
Entries ==
    { Obj(Str("a"), Str("A"), Absent, List(<<Str("b")>>)),
      Obj(Str("a"), Str("A2"), Str("d"), List(<<>>)),
      Obj(Str("b"), Absent, Str("d"), List(<<Str("a"), Num("5"), Str("a")>>)),
      Obj(Str(""), Str("E"), Absent, List(<<Str("a")>>)),
      Obj(Num("5"), Absent, Absent, List(<<Str("b")>>)),
      Obj(Absent, Str("N"), Absent, List(<<Str("a")>>)),
      Obj(Str("a"), Absent, Absent, Str("b")),
      NonObj }

NoteLists == UNION { [1..n -> Entries] : n \in 0..MaxEntries }

\* The number of times the same notes list is posted.
MaxRuns == 2

NotRun == [raised |-> FALSE, nodes |-> <<>>, edges |-> <<>>, ran |-> FALSE,
           runs |-> 0]

\* POST /api/graph with a notes list: the graph is computed (the same list
\* may be posted again).
Materialize ==
    /\ g_out.runs < MaxRuns
    /\ g_out' = [raised |-> build_graph_from_notes(g_in).raised,
                 nodes |-> build_graph_from_notes(g_in).nodes,
                 edges |-> build_graph_from_notes(g_in).edges,
                 ran |-> TRUE, runs |-> g_out.runs + 1]
    /\ UNCHANGED <<g_in, notes, versions, links, nextNote, nextVersion, nextLink,
                   now, pc, req, res, hist, nreq>>

\* JSON null, and a JSON value that is an object.
Null == [k |-> "null", s |-> "", items |-> <<>>]
ObjVal == [k |-> "object", s |-> "", items |-> <<>>]

\* What _read_json_body returns: None (k = "none": no Content-Length, an
\* empty body, a body that is not JSON, or the JSON text null), or the
\* parsed value: an object with the value of its key notes, or a value of
\* another top-level type.
Body(k, notes_value) == [k |-> k, notes |-> notes_value]

Bodies ==
    {Body("none", Absent)}
        \cup { Body(k, Absent) : k \in {"list", "str", "num", "bool"} }
        \cup { Body("object", v) : v \in {Absent, Null, Str("x"), Num("5"), ObjVal} }
        \cup { Body("object", List(entries)) : entries \in NoteLists }

\* What the client gets when the handler raises: the connection is closed
\* without a response (status 0), or the platform answers 500.
NoResponse == 0
Unhandled == {NoResponse, HTTP_500_INTERNAL_SERVER_ERROR}

PostAnswer(raised, status_code, graph) ==
    [raised |-> raised, status |-> status_code, nodes |-> graph.nodes,
     edges |-> graph.edges, ran |-> TRUE]

NoGraph == [nodes |-> <<>>, edges |-> <<>>]

\* handler.do_POST on the body read, crash being the outcome of an
\* exception the handler does not catch.
do_POST(body, crash) ==
    IF body.k = "none" THEN PostAnswer(FALSE, HTTP_400_BAD_REQUEST, NoGraph)
    ELSE IF body.k # "object" THEN PostAnswer(TRUE, crash, NoGraph)
    ELSE LET notes_value == body.notes IN
         IF notes_value.k \in {"absent", "null"} \/ notes_value.k # "list"
         THEN PostAnswer(FALSE, HTTP_400_BAD_REQUEST, NoGraph)
         ELSE LET graph == build_graph_from_notes(notes_value.items) IN
              IF graph.raised THEN PostAnswer(TRUE, crash, NoGraph)
              ELSE PostAnswer(FALSE, HTTP_200_OK, graph)

\* POST /api/graph: the handler answers the body in g_in.
Post ==
    /\ ~g_out.ran
    /\ \E crash \in Unhandled : g_out' = do_POST(g_in, crash)
    /\ UNCHANGED <<g_in, notes, versions, links, nextNote, nextVersion, nextLink,
                   now, pc, req, res, hist, nreq>>

----------------------------------------------------------------------------
(* The Store: requests one at a time (Spec), or interleaved (SpecConc) *)

Step(p, in) ==
    \/ CreateNote(p, in)
    \/ CreateNoteVersion(p)
    \/ UpdateNote(p, in)
    \/ UpdateNoteCommit(p)
    \/ DeleteNote(p)
    \/ DeleteNoteCommit(p)
    \/ CreateLink(p, in)
    \/ CreateLinkCommit(p)
    \/ DeleteLink(p)
    \/ DeleteLinkCommit(p)

Init ==
    /\ StoreInit
    /\ g_in = <<>>
    /\ g_out = NotRun

Next == Step(1, Inputs)

Spec == Init /\ [][Next]_vars

NextConc == \E p \in Procs : Step(p, ConcInputs)

SpecConc == Init /\ [][NextConc]_vars

InitGraph ==
    /\ StoreInit
    /\ g_in \in NoteLists
    /\ g_out = NotRun

NextGraph == Materialize

SpecGraph == InitGraph /\ [][NextGraph]_vars

\* The two materializers share no state: a run posts a notes list to the
\* stateless handler, or it sends requests to the Store, GET /api/graph
\* among them.
NextPure ==
    \/ Materialize
    \/ /\ g_in = <<>>
       /\ ~g_out.ran
       /\ (Step(1, GraphInputs) \/ GetGraph(1))

SpecPure == InitGraph /\ [][NextPure]_vars

InitPost ==
    /\ StoreInit
    /\ g_in \in Bodies
    /\ g_out = NotRun

NextPost == Post

SpecPost == InitPost /\ [][NextPost]_vars

----------------------------------------------------------------------------
(* Properties *)

\* The handler p takes this step and with it answers a request of kind op.
Answers(p, op) == pc'[p] = "idle" /\ req'[p].op = op /\ <<pc[p], req[p], res[p]>> # <<pc'[p], req'[p], res'[p]>>

\* C1: when delete_note(id) of an existing note succeeds, the Store is left
\* with no NoteVersion whose note_id is id and no Link whose from_id or
\* to_id is id, and get_note(id) answers NotFound.
C1_DeleteNoteCascades ==
    [][\A p \in Procs :
          (pc[p] = "dn_commit" /\ Answers(p, "delete_note") /\ res'[p] = HTTP_200_OK)
          => /\ \A i \in DOMAIN versions' : versions'[i].note_id # req[p].id
             /\ \A i \in DOMAIN links' :
                   links'[i].from_id # req[p].id /\ links'[i].to_id # req[p].id
             /\ Kind(get_note(req[p].id).status)' = "NotFound"]_vars

\* C1 witness: delete_note has succeeded on a note that had a version
\* and was an endpoint of a link.
C1_Witness ==
    \E p \in Procs :
        /\ pc[p] = "idle" /\ req[p].op = "delete_note" /\ res[p] = HTTP_200_OK
        /\ req[p].id \notin Ids
        /\ Len(versions) < nextVersion
        /\ \E i \in DOMAIN links : links[i].from_id = NULL \/ links[i].to_id = NULL

Reverse(s) == [k \in DOMAIN s |-> s[Len(s) + 1 - k]]

C3_UpdateNoteAllOrNothing ==
    [][\A p \in Procs :
        Answers(p, "update_note") =>
            LET id == req'[p].id IN
            \/ /\ Len(versions') = Len(versions) + 1
               /\ SubSeq(versions', 1, Len(versions)) = versions
               /\ versions'[Len(versions')].note_id = id
               /\ id \in Ids /\ Ids' = Ids
               /\ notes'[id] # notes[id]
               /\ notes'[id].updated_at = versions'[Len(versions')].changed_at
               /\ \A n \in Ids \ {id} : notes'[n] = notes[n]
            \/ /\ res'[p] # HTTP_200_OK
               /\ versions' = versions
               /\ notes' = notes]_vars

\* C3 witness: the commit of an update_note failed (the note was deleted by
\* a concurrent request after update_note had loaded it) and the request
\* was answered with the storage error.
C3_Witness ==
    \E p \in Procs :
        /\ pc[p] = "idle"
        /\ req[p].op = "update_note"
        /\ res[p] = HTTP_500_INTERNAL_SERVER_ERROR
        /\ req[p].id \notin Ids
        /\ VersionsOf(req[p].id) = <<>>

\* C4: create_link with from_id = to_id always fails and adds no Link;
\* create_link for an ordered pair that is already linked fails with
\* ConflictError and leaves the Link set unchanged.
C4_DuplicateLinkIsConflict ==
    [][\A p \in Procs :
        Answers(p, "create_link") =>
            /\ req'[p].from_id = req'[p].to_id =>
                  /\ Kind(res'[p]) # "Success"
                  /\ links' = links
            /\ LinkExists(req'[p].from_id, req'[p].to_id) =>
                  /\ Kind(res'[p]) = "ConflictError"
                  /\ links' = links]_vars

\* C5: under any interleaving of create_link requests the Store holds at
\* most one Link per ordered (from_id, to_id) pair of notes.
C5_AtMostOneLinkPerPair ==
    \A i, j \in DOMAIN links :
        (/\ i # j
         /\ links[i].from_id # NULL
         /\ links[i].to_id # NULL) =>
            <<links[i].from_id, links[i].to_id>> # <<links[j].from_id, links[j].to_id>>

\* C6: in the state right after a successful create_note returns note N,
\* N is in the output of list_notes, get_note(N.id) returns it, and exactly
\* one NoteVersion exists for it, with old_content "" (the initial-creation
\* record).
C6_CreatedNoteIsVisible ==
    [][\A p \in Procs, id \in NoteIdInputs :
        (Answers(p, "create_note") /\ res'[p] = HTTP_201_CREATED /\ req'[p].id = id) =>
            /\ id \in Range(get_all_notes(0, DefaultLimit, NoneEnum, NoneEnum).body)'
            /\ get_note(id).status' = HTTP_200_OK
            /\ get_note(id).note.title' = Strip(req'[p].title)
            /\ Len(VersionsOf(id))' = 1
            /\ VersionsOf(id)[1].old_content' = <<>>
            /\ get_note(id).versions' = VersionsOf(id)']_vars

\* C7: a create_note that fails with InternalError leaves no partial write:
\* when the failure is at the version step, neither the Note nor a
\* NoteVersion of it is visible to get_note, list_notes or list_versions.
C7_FailedCreateLeavesNothing ==
    [][\A p \in Procs, id \in NoteIdInputs :
        (/\ Answers(p, "create_note")
         /\ Kind(res'[p]) = "InternalError"
         /\ req'[p].id = id) =>
            /\ Kind(get_note(id).status)' = "NotFound"
            /\ id \notin Range(get_all_notes(0, DefaultLimit, NoneEnum, NoneEnum).body)'
            /\ VersionsOf(id)' = <<>>]_vars

\* A change_reason that is absent, empty or made of whitespace only.
Blank(reason) == reason = NoneText \/ \A k \in DOMAIN reason : IsSpace(reason[k])

\* C8: update_note of a note called without a change_reason (absent, empty
\* or whitespace-only) always fails with ValidationError, and the note's
\* fields and its NoteVersions are unchanged afterwards.  For an id that no
\* note has, the call fails as well and changes nothing; the failure is
\* then ValidationError or, for a whitespace-only reason, NotFound.
C8_BlankReasonFails ==
    [][\A p \in Procs :
        (Answers(p, "update_note") /\ Blank(req'[p].change_reason)) =>
            /\ Kind(res'[p]) \in {"ValidationError", "NotFound"}
            /\ (req'[p].id \in Ids \/ req'[p].change_reason \in {NoneText, <<>>}) =>
                  Kind(res'[p]) = "ValidationError"
            /\ notes' = notes
            /\ versions' = versions]_vars

\* C8 witness: update_note of an existing note that has a version was
\* called with a whitespace-only change_reason and answered 400.
C8_Witness ==
    \E p \in Procs :
        /\ pc[p] = "idle"
        /\ req[p].op = "update_note"
        /\ req[p].change_reason = <<" ">>
        /\ req[p].id \in Ids
        /\ VersionsOf(req[p].id) # <<>>
        /\ res[p] = HTTP_400_BAD_REQUEST

\* The ids of the nodes of a graph.
NodeIds(g) == { g.nodes[k].id : k \in DOMAIN g.nodes }

\* C9: in strict graph materialization, with or without a domain filter, an
\* edge is returned for a Link if and only if both its from_id and its
\* to_id are ids of nodes of the returned node list; so the source and the
\* target of every returned edge are node ids of the same result.
C9_StrictEdgesWithinNodes ==
    \A domain \in Domain \cup {NoneEnum} :
        LET g == get_graph_data(domain) IN
        /\ \A k \in DOMAIN g.edges :
              /\ g.edges[k].source \in NodeIds(g)
              /\ g.edges[k].target \in NodeIds(g)
              /\ \E i \in DOMAIN links :
                    /\ links[i].id = g.edges[k].id
                    /\ links[i].from_id = g.edges[k].source
                    /\ links[i].to_id = g.edges[k].target
        /\ \A i \in DOMAIN links :
              (links[i].from_id \in NodeIds(g) /\ links[i].to_id \in NodeIds(g)) <=>
                  \E k \in DOMAIN g.edges : g.edges[k].id = links[i].id

\* C9 witness: a Link goes from a note of domain physics to a note of
\* another domain; the unfiltered graph has its edge, the graph filtered
\* to physics has the source as a node and no edge.
C9_Witness ==
    \E i \in DOMAIN links :
        /\ links[i].from_id \in Ids
        /\ links[i].to_id \in Ids
        /\ notes[links[i].from_id].domain = "physics"
        /\ notes[links[i].to_id].domain # "physics"
        /\ Len(get_graph_data(NoneEnum).edges) = 1
        /\ links[i].from_id \in NodeIds(get_graph_data("physics"))
        /\ get_graph_data("physics").edges = <<>>

\* The non-empty string ids that occur in a notes list.
IdsIn(entries) == { entries[i].id.s : i \in { j \in DOMAIN entries : IsNodeId(entries[j].id) } }

\* The index of the first entry of the list that carries the id.
First(entries, id) ==
    CHOOSE i \in DOMAIN entries :
        /\ IsNodeId(entries[i].id) /\ entries[i].id.s = id
        /\ \A j \in 1..(i - 1) : ~(IsNodeId(entries[j].id) /\ entries[j].id.s = id)

\* C10: in permissive materialization, for every input list, each non-empty
\* string id occurring in it yields exactly one node, whose title and
\* domain are taken from the first entry carrying that id, and the nodes
\* appear in order of first occurrence.
C10_OneNodePerId ==
    g_out.ran =>
        LET nodes == g_out.nodes IN
        /\ \A k \in DOMAIN nodes : nodes[k].id \in IdsIn(g_in)
        /\ \A id \in IdsIn(g_in) :
              /\ Cardinality({ k \in DOMAIN nodes : nodes[k].id = id }) = 1
              /\ \A k \in DOMAIN nodes :
                    nodes[k].id = id =>
                        LET note == g_in[First(g_in, id)] IN
                        /\ nodes[k].title = Get(note.title, note.id)
                        /\ nodes[k].domain = Get(note.domain, DefaultDomain)
        /\ \A k1, k2 \in DOMAIN nodes :
              k1 < k2 => First(g_in, nodes[k1].id) < First(g_in, nodes[k2].id)

\* The links array of an entry (empty when the key is absent).
LinksOf(note) == Get(note.links, List(<<>>))

\* The places <<i, j>> of a notes list that hold a string target: entry i
\* has a non-empty string id and a list as links, whose item j is a string.
StringTargets(entries) ==
    { pl \in UNION { { <<i, j>> : j \in DOMAIN LinksOf(entries[i]).items } : i \in DOMAIN entries } :
        /\ IsNodeId(entries[pl[1]].id)
        /\ LinksOf(entries[pl[1]]).k = "list"
        /\ IsStr(LinksOf(entries[pl[1]]).items[pl[2]]) }

\* The edge that the place pl of a notes list stands for.
EdgeAt(entries, pl) ==
    [source |-> entries[pl[1]].id.s, target |-> LinksOf(entries[pl[1]]).items[pl[2]].s]

\* C11: in permissive materialization an edge {source, target} is emitted
\* for every string target listed in the links array of an entry with a
\* non-empty string id, whether or not the target is the id of a node of
\* the result; targets that are no strings and entries whose links field is
\* no list contribute no edge.
C11_EdgeForEveryStringTarget ==
    g_out.ran =>
        /\ Len(g_out.edges) = Cardinality(StringTargets(g_in))
        /\ \A pl \in StringTargets(g_in) :
              Cardinality({ k \in DOMAIN g_out.edges : g_out.edges[k] = EdgeAt(g_in, pl) })
                  = Cardinality({ q \in StringTargets(g_in) : EdgeAt(g_in, q) = EdgeAt(g_in, pl) })

\* The entries of a notes list that are objects.
Objects(entries) == SelectSeq(entries, LAMBDA note : note.obj)

\* C12: the Graph Materializer never raises for a malformed entry: for
\* every input list, whatever the shape of its elements, it returns the
\* nodes and edges built from the well-formed entries, the malformed ones
\* being skipped.
C12_NeverRaises ==
    g_out.ran =>
        /\ ~g_out.raised
        /\ g_out.nodes = NodePass(Objects(g_in), {})
        /\ g_out.edges = EdgePass(Objects(g_in))

\* C13: under any interleaving of create_link and delete_note requests no
\* Link is dangling: in every reachable state the from_id and the to_id of
\* each Link are ids of Notes that exist in that state.
C13_NoDanglingLink ==
    \A i \in DOMAIN links :
        /\ links[i].from_id \in Ids
        /\ links[i].to_id \in Ids

\* C14: list_versions(note_id) fails with NotFound, and with no other error
\* kind, when no note has the id; when the note exists it returns the
\* NoteVersions of that note, newest first.
C14_ListVersionsNotFound ==
    \A id \in NoteIdInputs :
        LET answer == get_note_versions(id) IN
        IF id \notin Ids
        THEN Kind(answer.status) = "NotFound"
        ELSE /\ Kind(answer.status) = "Success"
             /\ answer.body = Reverse(VersionsOf(id))

\* C15: in every reachable state every stored Note has a non-empty title;
\* no accepted create_note or update_note, whatever title it carries
\* (whitespace-only ones included), stores an empty title.
C15_TitleNonEmpty ==
    \A id \in Ids : notes[id].title # <<>>

\* list_versions of every stored note has the versions in the order in
\* which they were written, the last written first.
LastWrittenFirst ==
    \A id \in Ids :
        LET body == get_note_versions(id).body
        IN  \A k1, k2 \in DOMAIN body : k1 < k2 => body[k1].id > body[k2].id

Paging == (0 - 1)..1

\* C17: list_notes fails with ValidationError whenever skip is negative or
\* limit is negative, and returns no note sequence in that case.
C17_NegativePagingIsValidationError ==
    \A skip \in Paging, limit \in Paging :
        (skip < 0 \/ limit < 0) =>
            \A answer \in get_all_notes_answers(skip, limit, NoneEnum, NoneEnum) :
                /\ Kind(answer.status) = "ValidationError"
                /\ answer.body = <<>>

\* The old_content values that updates leaving the contents xs write when
\* they run one after the other on a note of content c.
RECURSIVE SerialOld(_, _)
SerialOld(c, xs) ==
    IF xs = <<>> THEN <<>>
    ELSE <<c>> \o SerialOld(Head(xs), Tail(xs))

\* The content of the note after these updates.
SerialFinal(c, xs) == IF xs = <<>> THEN c ELSE xs[Len(xs)]

\* The versions that the updates of a note have written, oldest first.
UpdateVersions(id) ==
    SelectSeq(VersionsOf(id), LAMBDA v : v.change_reason # InitialCreation)

\* C18: concurrent update_note requests on the same note are serialized:
\* under any interleaving the versions and the final content of a note are
\* those of some sequential order of its committed updates, so each new
\* NoteVersion holds the content that came right before its own update and
\* no content change is lost.
C18_UpdatesSerialized ==
    \A id \in Ids :
        hist[id].returned =>
            \E order \in Permutations(DOMAIN hist[id].sets) :
                LET xs == [k \in DOMAIN order |-> hist[id].sets[order[k]]]
                    olds == [k \in DOMAIN UpdateVersions(id) |->
                                UpdateVersions(id)[k].old_content]
                IN  /\ olds = SerialOld(hist[id].created, xs)
                    /\ notes[id].content = SerialFinal(hist[id].created, xs)

\* C19: a successful update_note changes only the fields provided (among
\* title, content, note_type, domain) and updated_at: a field that is not
\* provided keeps its value, the id and created_at of the note do not
\* change, and the other Notes, their NoteVersions and all Links are left
\* as they were.
C19_UpdateNoteFrame ==
    [][\A p \in Procs :
        (/\ pc[p] = "un_commit"
         /\ Answers(p, "update_note")
         /\ res'[p] = HTTP_200_OK) =>
            LET id == req[p].id IN
            /\ Ids' = Ids
            /\ id \in Ids
            /\ notes'[id].created_at = notes[id].created_at
            /\ req[p].title = NoneText => notes'[id].title = notes[id].title
            /\ req[p].content = NoneText => notes'[id].content = notes[id].content
            /\ req[p].note_type = NoneEnum => notes'[id].note_type = notes[id].note_type
            /\ req[p].domain = NoneEnum => notes'[id].domain = notes[id].domain
            /\ \A n \in Ids \ {id} : notes'[n] = notes[n]
            /\ \A i \in DOMAIN versions : versions'[i] = versions[i]
            /\ \A i \in DOMAIN versions' \ DOMAIN versions : versions'[i].note_id = id
            /\ links' = links]_vars

\* C19 witness: an update_note that provided a content and no other field
\* has succeeded on a note that is linked to another note.
C19_Witness ==
    \E p \in Procs :
        /\ pc[p] = "idle"
        /\ req[p].op = "update_note"
        /\ res[p] = HTTP_200_OK
        /\ req[p].id \in Ids
        /\ notes[req[p].id].title = <<"t">>
        /\ notes[req[p].id].content = <<"b">>
        /\ notes[req[p].id].updated_at # NULL
        /\ Len(VersionsOf(req[p].id)) = 2
        /\ Cardinality(Ids) = 2
        /\ \E i \in DOMAIN links : links[i].from_id = req[p].id

\* The request carries a notes collection that is a list.
HasNotesList(body) == body.k = "object" /\ body.notes.k = "list"

\* C20: the stateless graph request fails with ValidationError and returns
\* no graph whenever the body carries no notes collection or a notes value
\* that is not a list, whatever the top-level shape of the parsed body;
\* otherwise it returns the permissive {nodes, edges} result.
C20_PostValidates ==
    g_out.ran =>
        IF ~HasNotesList(g_in)
        THEN /\ ~g_out.raised
             /\ Kind(g_out.status) = "ValidationError"
             /\ g_out.nodes = <<>> /\ g_out.edges = <<>>
        ELSE /\ ~g_out.raised
             /\ Kind(g_out.status) = "Success"
             /\ g_out.nodes = NodePass(Objects(g_in.notes.items), {})
             /\ g_out.edges = EdgePass(Objects(g_in.notes.items))

C22_DeleteLinkFrame ==
    [][\A p \in Procs :
        /\ (pc[p] = "idle" /\ nreq' # nreq /\ req'[p].op = "delete_link") =>
              IF \E i \in DOMAIN links : links[i].id = req'[p].id
              THEN pc'[p] = "dl_commit"
              ELSE /\ pc'[p] = "idle"
                   /\ Kind(res'[p]) = "NotFound"
                   /\ notes' = notes /\ versions' = versions /\ links' = links
        /\ (pc[p] = "dl_commit" /\ Answers(p, "delete_link")) =>
              /\ notes' = notes /\ versions' = versions
              /\ Kind(res'[p]) \in {"Success", "InternalError"}
              /\ Kind(res'[p]) = "InternalError" => links' = links
              /\ Kind(res'[p]) = "Success" =>
                    /\ Len(links') = Len(links) - 1
                    /\ \A i \in DOMAIN links' : links'[i].id # req[p].id
                    /\ \A i \in DOMAIN links :
                          links[i].id # req[p].id =>
                              \E k \in DOMAIN links' : links'[k] = links[i]]_vars

\* C22 witness: a delete_link has succeeded and the other Link is still
\* stored, as are both Notes.
C22_Witness ==
    \E p \in Procs :
        /\ pc[p] = "idle"
        /\ req[p].op = "delete_link"
        /\ res[p] = HTTP_200_OK
        /\ nextLink = 2
        /\ Len(links) = 1
        /\ links[1].id # req[p].id
        /\ Cardinality(Ids) = 2

\* The stored notes that match the filters supplied.
Matching(domain, note_type) ==
    { i \in Ids : /\ domain # NoneEnum => notes[i].domain = domain
                  /\ note_type # NoneEnum => notes[i].note_type = note_type }

\* The sequences that hold each note of the set once, created_at descending.
NewestFirst(match) ==
    { f \in [1..Cardinality(match) -> match] :
        /\ \A k1, k2 \in DOMAIN f : k1 # k2 => f[k1] # f[k2]
        /\ \A k1, k2 \in DOMAIN f :
              k1 < k2 => notes[f[k1]].created_at >= notes[f[k2]].created_at }

\* C23: list_notes(filter, skip, limit) with non-negative skip and limit
\* returns exactly the stored notes that match every supplied filter,
\* ordered by created_at descending, with the first skip of them dropped
\* and at most limit returned.
C23_ListNotesPage ==
    \A skip \in Paging, limit \in Paging :
        (skip >= 0 /\ limit >= 0) =>
            \A domain \in GraphFilters, note_type \in {NoneEnum, "idea", "question"} :
                \A answer \in get_all_notes_answers(skip, limit, domain, note_type) :
                    /\ Kind(answer.status) = "Success"
                    /\ \E f \in NewestFirst(Matching(domain, note_type)) :
                          LET rest == Len(f) - skip
                              n == IF rest < 0 THEN 0
                                   ELSE IF limit < rest THEN limit ELSE rest
                          IN  answer.body = [k \in 1..n |-> f[skip + k]]

\* C24: create_link reports exactly one error, decided by the first
\* failing check in the order: source note missing (NotFound), target note
\* missing (NotFound), from_id = to_id (ValidationError), ordered pair
\* already linked (ConflictError); on every error the Link set is
\* unchanged, and only when all checks pass is exactly one new Link added,
\* with the given from_id, to_id and relation.
C24_CreateLinkChecksInOrder ==
    [][\A p \in Procs :
        /\ (pc[p] = "idle" /\ nreq' # nreq /\ req'[p].op = "create_link") =>
              LET from_id == req'[p].from_id
                  to_id == req'[p].to_id
                  refused(kind) == /\ pc'[p] = "idle"
                                   /\ Kind(res'[p]) = kind
                                   /\ links' = links
              IN  IF from_id \notin Ids THEN refused("NotFound")
                  ELSE IF to_id \notin Ids THEN refused("NotFound")
                  ELSE IF from_id = to_id THEN refused("ValidationError")
                  ELSE IF LinkExists(from_id, to_id) THEN refused("ConflictError")
                  ELSE pc'[p] = "cl_commit" /\ links' = links
        /\ (pc[p] = "cl_commit" /\ Answers(p, "create_link")) =>
              IF Kind(res'[p]) = "Success"
              THEN /\ Len(links') = Len(links) + 1
                   /\ SubSeq(links', 1, Len(links)) = links
                   /\ links'[Len(links')].from_id = req[p].from_id
                   /\ links'[Len(links')].to_id = req[p].to_id
                   /\ links'[Len(links')].relation = req[p].relation
              ELSE links' = links]_vars

\* No request is being handled.
Completed == \A p \in Procs : pc[p] = "idle"

\* C25: every successful update_note adds exactly one NoteVersion, also
\* when it provides no content: in every state reached by sequential
\* completed requests the number of NoteVersions of an existing note is 1
\* plus the number of successful update_note calls on it, and the version
\* of each update (a metadata-only one included) holds the content the
\* note had before it, which such an update leaves unchanged.
C25_OneVersionPerSuccessfulUpdate ==
    Completed =>
        \A id \in Ids :
            LET vs == VersionsOf(id)
                prior == hist[id].prior
            IN  /\ Len(vs) = 1 + hist[id].updated
                /\ \A k \in DOMAIN prior : vs[k + 1].old_content = prior[k]

\* Every element of the notes list is an object.
AllObjects(entries) == \A i \in DOMAIN entries : entries[i].obj

\* C26: in permissive materialization, for every input list of object
\* entries, the source of every emitted edge is the id of a node of the
\* returned node list (only the target may be absent from the nodes).
C26_EdgeSourceIsNode ==
    (g_out.ran /\ AllObjects(g_in)) =>
        /\ ~g_out.raised
        /\ \A k \in DOMAIN g_out.edges : g_out.edges[k].source \in NodeIds(g_out)

\* C26 witness: a list of objects has given edges, one of them to a target
\* that is no node, from entries of which one has an empty id and one
\* repeats an id.
C26_Witness ==
    /\ g_out.ran
    /\ AllObjects(g_in)
    /\ Len(g_in) = 3
    /\ \E i \in DOMAIN g_in : g_in[i].id = Str("")
    /\ \E i, j \in DOMAIN g_in : i < j /\ IsNodeId(g_in[i].id) /\ g_in[i].id = g_in[j].id
    /\ \E k \in DOMAIN g_out.edges : g_out.edges[k].target \notin NodeIds(g_out)

\* C27: in permissive materialization the edge pass does not deduplicate.
\* The links of a later entry whose id repeats an earlier one are still
\* emitted as edges with that id as source, and repeated targets yield
\* repeated edges: the number of edges is the total number of string
\* targets over all entries with a non-empty string id and a list-valued
\* links field.
C27_EdgesNotDeduplicated ==
    g_out.ran =>
        LET edges == g_out.edges
            places == StringTargets(g_in)
        IN  /\ Len(edges) = Cardinality(places)
            /\ \A pl \in places :
                  (\E i \in 1..(pl[1] - 1) : g_in[i].id = g_in[pl[1]].id) =>
                      \E k \in DOMAIN edges : edges[k] = EdgeAt(g_in, pl)
            /\ \A k \in DOMAIN edges :
                  Cardinality({ k2 \in DOMAIN edges : edges[k2] = edges[k] })
                      = Cardinality({ pl \in places : EdgeAt(g_in, pl) = edges[k] })

\* C28: in strict materialization the node list has exactly one node for
\* each stored Note matching the domain filter (all Notes without a
\* filter) and no other node, so nodes are unique by identifier, and each
\* node carries the stored id, title, note_type and domain.
C28_StrictNodesAreTheNotes ==
    \A domain \in Domain \cup {NoneEnum} :
        LET nodes == get_graph_data(domain).nodes IN
        /\ { nodes[k].id : k \in DOMAIN nodes } = Matching(domain, NoneEnum)
        /\ \A k1, k2 \in DOMAIN nodes : nodes[k1].id = nodes[k2].id => k1 = k2
        /\ \A k \in DOMAIN nodes :
              /\ nodes[k].title = notes[nodes[k].id].title
              /\ nodes[k].note_type = notes[nodes[k].id].note_type
              /\ nodes[k].domain = notes[nodes[k].id].domain

\* C28 witness: two Notes of different domains are stored and linked, and
\* the graph filtered by the domain of one has that Note as its only node.
C28_Witness ==
    /\ Cardinality(Ids) = 2
    /\ links # <<>>
    /\ \E i, j \in Ids : notes[i].domain = "physics" /\ notes[j].domain = "other"
    /\ Len(get_graph_data("physics").nodes) = 1
    /\ Len(get_graph_data(NoneEnum).nodes) = 2

\* C29: in permissive materialization a node built from an entry without
\* a title gets the identifier of the entry as title, and a node built
\* from an entry without a domain gets the fixed fallback domain; an entry
\* that supplies title or domain keeps the supplied value.
C29_NodeDefaults ==
    g_out.ran =>
        \A k \in DOMAIN g_out.nodes :
            LET node == g_out.nodes[k]
                note == g_in[First(g_in, node.id)]
            IN  /\ node.title = IF note.title = Absent THEN Str(node.id) ELSE note.title
                /\ node.domain = IF note.domain = Absent THEN Str("default") ELSE note.domain

\* C29 witness: the result has a node whose title is its id, from an entry
\* without a title that supplies a domain, and a node with the fallback
\* domain, from an entry without a domain that supplies a title.
C29_Witness ==
    /\ g_out.ran
    /\ \E k1, k2 \in DOMAIN g_out.nodes :
          /\ g_in[First(g_in, g_out.nodes[k1].id)].title = Absent
          /\ g_out.nodes[k1].title = Str(g_out.nodes[k1].id)
          /\ g_out.nodes[k1].domain = Str("d")
          /\ g_in[First(g_in, g_out.nodes[k2].id)].domain = Absent
          /\ g_out.nodes[k2].domain = Str("default")
          /\ g_out.nodes[k2].title = Str("A")

====
